---- MODULE Spec2Model ----
(***************************************************************************)
(* Kiwi: a file-system job queue (src/src/lib/main.ts).                    *)
(*                                                                         *)
(* The model follows the JavaScript execution model of the class:          *)
(*  - code between two `await`s runs atomically;                           *)
(*  - an `await` on a file-system call is resumed by an I/O callback       *)
(*    (a macrotask); concurrent file-system calls complete in any order,   *)
(*    and the effect of a call on the disk is taken at its completion;     *)
(*  - an `await` on a promise that is already settled (a mutex that was    *)
(*    free, the memoized `inited` promise, the return of runJob) is        *)
(*    resumed by a microtask, and microtasks run before the next           *)
(*    macrotask (MicrotaskPending).                                        *)
(* The worker and the callers of the public methods are the environment.   *)
(***************************************************************************)
EXTENDS Integers, Sequences, FiniteSets, TLC

\* ------------------------------------------------------------------ bounds
\* number of jobs in a behaviour: the job files found on the disk at
\* construction and the add() calls
MaxJobs == 2
\* number of start(), pause(), clear() and idle() calls in a behaviour
MaxCalls == 2
\* the wall clock (seconds) runs from 0 to MaxClock
MaxClock == 0
\* largest numeric value tried for options.retries
MaxRetries == 1

\* ------------------------------------------------------- program constants
\* getUniqueFilename gives up after this many candidates
MaxAttempts == 100

DIR_NAMES == <<"current", "idle", "success", "fail">>

Dirs == {DIR_NAMES[i] : i \in 1..4}

\* ---------------------------------------------------------------- payloads
\* JavaScript values handed to add(), written as source text
Payloads == {"1", "'foo'", "NaN"}

\* the payload of the i-th add() of the tests, `queue.add(i)`
TestPayload(i) == <<"1", "2", "3", "4", "5", "6", "7", "8", "9">>[i]

\* JSON.stringify, as fs.writeJSON applies it to the payload: a finite
\* number is its digits, a string is quoted, NaN becomes null
Stringify(v) ==
  CASE v = "'foo'" -> "\"foo\""
    [] v = "NaN" -> "null"
    [] OTHER -> v

\* a parse that hands out the text of the file
ParseRaw(t) == t

\* JSON.parse, as fs.readJSON applies it to the file's text
Parse(t) ==
  CASE t = "\"foo\"" -> "'foo'"
    [] OTHER -> t

\* --------------------------------------------------------------- filenames
\* moment().format('YYYY-MM-DD-HH-mm-ss-') + numeral(fileId).format(20 zeros)
\* + '.json': the second of the clock, then the zero-padded counter
FormatFilename(stamp, id) == [stamp |-> stamp, id |-> id, ext |-> "json"]

\* the reverse order
NameMore(a, b) ==
  \/ b.stamp < a.stamp
  \/ a.stamp = b.stamp /\ b.id < a.id

\* the order of Array.prototype.sort() on such names: by stamp, then by the
\* zero-padded counter, then by extension
NameLess(a, b) ==
  \/ a.stamp < b.stamp
  \/ a.stamp = b.stamp /\ a.id < b.id
  \/ a.stamp = b.stamp /\ a.id = b.id /\ a.ext = "json" /\ b.ext # "json"

EndsWithJson(name) == name.ext = "json"

Null == [null |-> TRUE]

VARIABLES
  options,       \* this.options
  disk0,         \* the disk at construction (never changes)
  now,           \* the wall clock read by moment()
  dirExists,     \* the directories of DIR_NAMES that exist on disk
  files,         \* files[d]: the files of directory d, [name, text]
  fileId,        \* Kiwi.fileId
  started,       \* this.started
  currentJob,    \* this.currentJob (the IJob object shared with runJob)
  inited,        \* this.inited: "undefined", or the state of the promise
  initTask,      \* the position of the single _init() run
  addTasks,      \* the add() calls, in call order; ran: add() read started
                 \* as true and called runNextJob()
  startWaiting,  \* start() calls suspended at `await this.init()`
  clearTasks,    \* clear() calls in progress
  idleWaiters,   \* promises returned by idle() that are not resolved yet
  getJobMutex,   \* Kiwi.getJobMutex
  runJobMutex,   \* Kiwi.runJobMutex
  runs,          \* the runNextJob() calls that have not returned, in call order
  finishedPending, \* onJobFinished() calls suspended at `await this.isEmpty()`
  timers,        \* setTimeout callbacks of onJobFinished not yet fired
  called,        \* start(), pause(), clear() and idle() calls made so far
  log,           \* worker invocations and emitted events, in order
  peer           \* a second Kiwi of the process, on a directory of its own

vars == <<options, disk0, now, dirExists, files, fileId, started, currentJob, inited,
          initTask, addTasks, startWaiting, clearTasks, idleWaiters,
          getJobMutex, runJobMutex, runs, finishedPending, timers, called,
          log, peer>>


\* ------------------------------------------------------------- file system
Names(d) == {f.name : f \in files[d]}

FileAt(fs, d, name) == CHOOSE f \in fs[d] : f.name = name

\* a pathExists that finds nothing
PathExistsNever(d, name) == FALSE

\* fs.pathExists
PathExists(d, name) == d \in dirExists /\ name \in Names(d)

\* fs.writeJSON on a directory that exists: creates or replaces the file
WriteFile(fs, d, name, text) ==
  [fs EXCEPT ![d] = {f \in @ : f.name # name} \cup {[name |-> name, text |-> text]}]

\* fs.remove: no error when the path is missing
RemoveFile(fs, d, name) == [fs EXCEPT ![d] = {f \in @ : f.name # name}]

\* fs.move(src, dest) without overwrite fails when the source is missing or
\* the destination exists
MoveFails(from, to, name) ==
  \/ ~PathExists(from, name)
  \/ PathExists(to, name)

\* a move that leaves the source in place
MoveFileCopy(fs, from, to, name) ==
  [fs EXCEPT ![to] = @ \cup {FileAt(fs, from, name)}]

\* fs.move: a rename of the file into the destination directory
MoveFile(fs, from, to, name) ==
  [fs EXCEPT ![from] = {f \in @ : f.name # name},
             ![to] = @ \cup {FileAt(fs, from, name)}]

\* an empty() that spares the terminal directory of failed jobs
EmptyFolderSpare(fs, d) == [fs EXCEPT ![d] = IF d = "fail" THEN @ ELSE {}]

\* empty(folderPath, false, cb): removes everything in the folder
EmptyFolder(fs, d) == [fs EXCEPT ![d] = {}]

RECURSIVE SortNames(_)
\* Array.prototype.sort() on file names
SortNames(S) ==
  IF S = {} THEN <<>>
  ELSE LET m == CHOOSE x \in S : \A y \in S \ {x} : NameLess(x, y)
       IN  <<m>> \o SortNames(S \ {m})

\* getFilesInDirectory: the .json files of a directory, sorted (false and []
\* are both the empty sequence: every caller tests `files && files.length`)
GetFilesInDirectory(d) == SortNames({n \in Names(d) : EndsWithJson(n)})

\* getNextJobFilePath / getNextJob: the job record of the first idle file
GetNextJob ==
  LET listing == GetFilesInDirectory("idle")
  IN  IF Len(listing) > 0
      THEN [filename |-> listing[1], filepath |-> "idle", data |-> "null",
            tryCount |-> 0, success |-> "undefined"]
      ELSE Null

\* ------------------------------------------------------------------- mutex
\* A call of runNextJob is a record of `runs`, in call order: its position
\* (pc), its local `job`, whether this.currentJob is that same object, and
\* the Kiwi it was called on (inst: 1, or 2 for the second Kiwi of `peer`).
\* The queue of a mutex is the calls suspended at its acquire(), in call order.

\* the first call suspended at position pc, or 0
FirstAt(rs, pc) ==
  IF \E k \in DOMAIN rs : rs[k].pc = pc
  THEN CHOOSE k \in DOMAIN rs : rs[k].pc = pc /\ \A j \in 1..(k - 1) : rs[j].pc # pc
  ELSE 0

\* an acquire() that never waits
AcquireAlways(m, waitPc, nextPc) == nextPc

\* Mutex.acquire(): taken at once when the mutex is free, queued otherwise
Acquire(m, waitPc, nextPc) == IF m.locked THEN waitPc ELSE nextPc

\* the releaser of a mutex: the first queued call takes the mutex and moves
\* on to nextPc
Release(rs, waitPc, nextPc) ==
  IF FirstAt(rs, waitPc) = 0 THEN rs
  ELSE [rs EXCEPT ![FirstAt(rs, waitPc)].pc = nextPc]

\* a release that is forgotten
ReleasedNever(rs, waitPc) == [locked |-> TRUE]

\* the mutex after its releaser ran: still locked when a call was queued
Released(rs, waitPc) == [locked |-> FirstAt(rs, waitPc) # 0]

RemoveAt(seq, k) == SubSeq(seq, 1, k - 1) \o SubSeq(seq, k + 1, Len(seq))

\* a call of runNextJob(), up to `await Kiwi.getJobMutex.acquire()`
RunNextJobCalled(rs, m) ==
  Append(rs, [pc |-> Acquire(m, "acquireGet", "check"), job |-> Null,
              aliased |-> FALSE, inst |-> 1])

\* ----------------------------------------------------------------- options
\* the numeric value JavaScript gives options.retries in `<` and `<=`
ToNumber(r) == IF r.type = "boolean" THEN (IF r.bool THEN 1 ELSE 0) ELSE r.num

RetriesNumber(n) == [type |-> "number", bool |-> FALSE, num |-> n]

RetriesFalse == [type |-> "boolean", bool |-> FALSE, num |-> 0]

RetriesValues == {RetriesFalse} \cup {RetriesNumber(n) : n \in 0..MaxRetries}

\* the options the class reads, the two delete options set together
OptionValues ==
  {[autostart |-> a, restore |-> r, deleteJobOnFail |-> d,
    deleteJobOnSuccess |-> d, retries |-> n] :
     a \in BOOLEAN, r \in BOOLEAN, d \in BOOLEAN, n \in RetriesValues}

\* the default options but for restore and the two delete options
MainOptions ==
  {[autostart |-> FALSE, restore |-> r, deleteJobOnFail |-> df,
    deleteJobOnSuccess |-> ds, retries |-> RetriesNumber(MaxRetries)] :
     r \in BOOLEAN, df \in BOOLEAN, ds \in BOOLEAN}

\* a job file left by an earlier process in the same second of the clock
OldJob == [name |-> FormatFilename(0, 1), text |-> "\"foo\""]

NoFiles == [d \in Dirs |-> {}]

\* the disk before construction: no queue directory yet
FreshDisk == [exists |-> {}, files |-> NoFiles]

\* the directories of an earlier run, with the files it left in directory d
DiskWith(d, left) == [exists |-> Dirs, files |-> [NoFiles EXCEPT ![d] = left]]

EmptyDisk == DiskWith("idle", {})

\* the disk after a crash that left a job in `current`
CrashedDisk == DiskWith("current", {OldJob})

NoTask == [pc |-> "none", i |-> 0, todo |-> <<>>]

\* init(): the memoized call of _init()
InitCalled == IF inited = "undefined" THEN "pending" ELSE inited

\* an init() without memory: every call runs _init() again
InitTaskRestarted == [pc |-> "mkdirp", i |-> 1, todo |-> <<>>]

InitTaskCalled ==
  IF inited = "undefined" THEN [pc |-> "mkdirp", i |-> 1, todo |-> <<>>]
  ELSE initTask

\* the process has no other Kiwi
NoPeer == [started |-> FALSE, currentJob |-> Null, idle |-> {}, current |-> {},
           finishedPending |-> 0, timers |-> 0]

\* the fields of the Kiwi after `new Kiwi(worker, options)`
InitKiwi(opts, disk) ==
  /\ options = opts
  /\ disk0 = disk
  /\ now = 0
  /\ dirExists = disk.exists
  /\ files = disk.files
  /\ fileId = 0
  /\ started = opts.autostart
  /\ currentJob = Null
  /\ inited = IF opts.autostart THEN "pending" ELSE "undefined"
  /\ initTask = IF opts.autostart THEN [pc |-> "mkdirp", i |-> 1, todo |-> <<>>]
                ELSE NoTask
  /\ addTasks = <<>>
  /\ startWaiting = IF opts.autostart THEN 1 ELSE 0
  /\ clearTasks = <<>>
  /\ idleWaiters = 0
  /\ getJobMutex = [locked |-> FALSE]
  /\ runJobMutex = [locked |-> FALSE]
  /\ runs = <<>>
  /\ finishedPending = 0
  /\ timers = 0
  /\ called = [start |-> 0, pause |-> 0, clear |-> 0, idle |-> 0]
  /\ log = <<>>

\* the state after `new Kiwi(worker, options)` in a process with no other Kiwi
InitWith(opts, disk) ==
  /\ InitKiwi(opts, disk)
  /\ peer = NoPeer

\* any options of MainOptions on an empty queue or after a crash that left
\* a job in `current`
Init ==
  \E opts \in MainOptions, disk \in {EmptyDisk, CrashedDisk} :
    InitWith(opts, disk)

\* every combination of options on an empty queue
InitOptions == \E opts \in OptionValues : InitWith(opts, EmptyDisk)

\* a queue started by the caller on a disk without queue directory, on an
\* empty queue or after a crash, or started by its constructor after a crash
InitScript ==
  \E opts \in OptionValues, disk \in {FreshDisk, EmptyDisk, CrashedDisk} :
    /\ opts.autostart => disk = CrashedDisk
    /\ InitWith(opts, disk)

\* the job files of an earlier process that take the first n names of second 0
OldJobs(n) == {[name |-> FormatFilename(0, i), text |-> OldJob.text] : i \in 1..n}

\* the default options, started by the constructor or not, on an `idle`
\* directory where no name, all but one, all, or twice all of the
\* MaxAttempts candidate names of an add() are taken
InitNames ==
  \E a \in BOOLEAN,
     n \in {0, MaxAttempts - 1, MaxAttempts, 2 * MaxAttempts} :
    InitWith([autostart |-> a, restore |-> TRUE, deleteJobOnFail |-> TRUE,
              deleteJobOnSuccess |-> TRUE, retries |-> RetriesNumber(MaxRetries)],
             DiskWith("idle", OldJobs(n)))

\* a continuation that runs before any I/O callback or timer
MicrotaskPending ==
  \/ \E r \in DOMAIN runs : runs[r].pc \in {"check", "return"}
  \/ startWaiting > 0 /\ inited \in {"resolved", "rejected"}

\* the job files an earlier process left in `current` and `idle`
InitialJobs ==
  {f \in disk0.files["current"] \cup disk0.files["idle"] : EndsWithJson(f.name)}

\* start(), pause(), clear() and idle() calls made so far
CallCount == called.start + called.pause + called.clear + called.idle

\* ------------------------------------------------------------ public calls
\* start(): started = true; await init(); then runNextJob() (StartResume)
CallStart ==
  /\ CallCount < MaxCalls
  /\ called' = [called EXCEPT !.start = @ + 1]
  /\ started' = TRUE
  /\ inited' = InitCalled
  /\ initTask' = InitTaskCalled
  /\ startWaiting' = startWaiting + 1
  /\ UNCHANGED <<peer, options, disk0, now, dirExists, files, fileId, currentJob, addTasks,
                 clearTasks, idleWaiters, getJobMutex, runJobMutex, runs,
                 finishedPending, timers, log>>

\* pause()
CallPause ==
  /\ CallCount < MaxCalls
  /\ called' = [called EXCEPT !.pause = @ + 1]
  /\ started
  /\ started' = FALSE
  /\ UNCHANGED <<peer, options, disk0, now, dirExists, files, fileId, currentJob, inited,
                 initTask, addTasks, startWaiting, clearTasks, idleWaiters,
                 getJobMutex, runJobMutex, runs, finishedPending, timers, log>>

\* clear(): await init(); then _clear() (ClearEmpty)
CallClear ==
  /\ CallCount < MaxCalls
  /\ called' = [called EXCEPT !.clear = @ + 1]
  /\ inited' = InitCalled
  /\ initTask' = InitTaskCalled
  /\ clearTasks' = Append(clearTasks, [pc |-> 1, disturbed |-> FALSE])
  /\ UNCHANGED <<peer, options, disk0, now, dirExists, files, fileId, started, currentJob,
                 addTasks, startWaiting, idleWaiters, getJobMutex, runJobMutex, runs,
                 finishedPending, timers, log>>

\* idle(): a promise resolved by the next 'queue:idle'
CallIdle ==
  /\ CallCount < MaxCalls
  /\ called' = [called EXCEPT !.idle = @ + 1]
  /\ idleWaiters' = idleWaiters + 1
  /\ UNCHANGED <<peer, options, disk0, now, dirExists, files, fileId, started, currentJob,
                 inited, initTask, addTasks, startWaiting, clearTasks,
                 getJobMutex, runJobMutex, runs, finishedPending, timers, log>>

\* add(data) up to its first I/O: the first candidate name of
\* getUniqueFilename, from the clock as moment() reads it (the clock may have
\* advanced since it was last read), and the pathExists it awaits
AddCalled(data) ==
  /\ \E t \in now..MaxClock :
       /\ now' = t
       /\ addTasks' = Append(addTasks,
            [pc |-> "pathExists", data |-> data, i |-> 1,
             filename |-> FormatFilename(t, fileId + 1), ran |-> FALSE])
  /\ fileId' = fileId + 1
  /\ UNCHANGED <<peer, called, options, disk0, dirExists, files, started, currentJob, inited,
                 initTask, startWaiting, clearTasks, idleWaiters, getJobMutex,
                 runJobMutex, runs, finishedPending, timers, log>>

\* add(data), as long as the behaviour has fewer than MaxJobs jobs
CallAdd(data) ==
  /\ Len(addTasks) + Cardinality(InitialJobs) < MaxJobs
  /\ AddCalled(data)

\* ------------------------------------------------------------------ _init
\* `await mkdirp(dir)` for each of this.paths, then the branch on restore
InitMkdirp ==
  /\ initTask.pc = "mkdirp"
  /\ ~MicrotaskPending
  /\ dirExists' = dirExists \cup {DIR_NAMES[initTask.i]}
  /\ initTask' =
       IF initTask.i < 4 THEN [initTask EXCEPT !.i = @ + 1]
       ELSE IF options.restore THEN [pc |-> "restore:readdir", i |-> 0, todo |-> <<>>]
       ELSE [pc |-> "clear", i |-> 1, todo |-> <<>>]
  /\ UNCHANGED <<peer, called, options, disk0, now, files, fileId, started, currentJob, inited,
                 addTasks, startWaiting, clearTasks, idleWaiters, getJobMutex,
                 runJobMutex, runs, finishedPending, timers, log>>

\* restoreCurrentFileIntoIdleDirectory: the listing of `current`
InitRestoreList ==
  /\ initTask.pc = "restore:readdir"
  /\ ~MicrotaskPending
  /\ LET listing == GetFilesInDirectory("current")
     IN  IF Len(listing) > 0
         THEN /\ initTask' = [pc |-> "restore:move", i |-> 0, todo |-> listing]
              /\ inited' = inited
         ELSE /\ initTask' = [pc |-> "done", i |-> 0, todo |-> <<>>]
              /\ inited' = "resolved"
  /\ UNCHANGED <<peer, called, options, disk0, now, dirExists, files, fileId, started, currentJob,
                 addTasks, startWaiting, clearTasks, idleWaiters, getJobMutex,
                 runJobMutex, runs, finishedPending, timers, log>>

\* restoreCurrentFileIntoIdleDirectory: one fs.move(current/file, idle/file,
\* {overwrite: false}); an error rejects _init()
InitRestoreMove ==
  /\ initTask.pc = "restore:move"
  /\ ~MicrotaskPending
  /\ LET file == Head(initTask.todo)
     IN  IF MoveFails("current", "idle", file)
         THEN /\ initTask' = [pc |-> "failed", i |-> 0, todo |-> <<>>]
              /\ inited' = "rejected"
              /\ files' = files
         ELSE /\ files' = MoveFile(files, "current", "idle", file)
              /\ IF Len(initTask.todo) > 1
                 THEN /\ initTask' = [initTask EXCEPT !.todo = Tail(@)]
                      /\ inited' = inited
                 ELSE /\ initTask' = [pc |-> "done", i |-> 0, todo |-> <<>>]
                      /\ inited' = "resolved"
  /\ UNCHANGED <<peer, called, options, disk0, now, dirExists, fileId, started, currentJob, addTasks,
                 startWaiting, clearTasks, idleWaiters, getJobMutex,
                 runJobMutex, runs, finishedPending, timers, log>>

\* _clear() inside _init(): `await this.empty(dir)` for each of this.paths
InitClear ==
  /\ initTask.pc = "clear"
  /\ ~MicrotaskPending
  /\ files' = EmptyFolder(files, DIR_NAMES[initTask.i])
  /\ IF initTask.i < 4
     THEN /\ initTask' = [initTask EXCEPT !.i = @ + 1]
          /\ inited' = inited
     ELSE /\ initTask' = [pc |-> "done", i |-> 0, todo |-> <<>>]
          /\ inited' = "resolved"
  /\ UNCHANGED <<peer, called, options, disk0, now, dirExists, fileId, started, currentJob, addTasks,
                 startWaiting, clearTasks, idleWaiters, getJobMutex,
                 runJobMutex, runs, finishedPending, timers, log>>

\* start() after `await this.init()`: runNextJob(), or the rejection of init
StartResume ==
  /\ startWaiting > 0
  /\ inited \in {"resolved", "rejected"}
  /\ startWaiting' = startWaiting - 1
  /\ IF inited = "resolved"
     THEN /\ runs' = RunNextJobCalled(runs, getJobMutex)
          /\ getJobMutex' = [locked |-> TRUE]
     ELSE UNCHANGED <<runs, getJobMutex>>
  /\ UNCHANGED <<peer, called, options, disk0, now, dirExists, files, fileId, started, currentJob,
                 inited, initTask, addTasks, clearTasks, idleWaiters,
                 runJobMutex, finishedPending, timers, log>>

\* a file written or moved into a directory while clear() calls are running
Disturb(tasks) == [k \in DOMAIN tasks |-> [tasks[k] EXCEPT !.disturbed = TRUE]]

\* clear() after `await this.init()`: one `await this.empty(dir)` of _clear(),
\* or the rejection of init
ClearEmpty(k) ==
  /\ k \in DOMAIN clearTasks
  /\ inited \in {"resolved", "rejected"}
  /\ ~MicrotaskPending
  /\ IF inited = "rejected"
     THEN /\ clearTasks' = RemoveAt(clearTasks, k)
          /\ files' = files
     ELSE /\ files' = EmptyFolder(files, DIR_NAMES[clearTasks[k].pc])
          /\ clearTasks' =
               IF clearTasks[k].pc < 4 THEN [clearTasks EXCEPT ![k].pc = @ + 1]
               ELSE RemoveAt(clearTasks, k)
  /\ UNCHANGED <<peer, called, options, disk0, now, dirExists, fileId, started, currentJob, inited,
                 initTask, addTasks, startWaiting, idleWaiters, getJobMutex,
                 runJobMutex, runs, finishedPending, timers, log>>

\* --------------------------------------------------------------------- add
\* getUniqueFilename after `await fs.pathExists(filename)`: the next
\* candidate, the error after MaxAttempts candidates, or the name
AddPathExists(k) ==
  /\ k \in DOMAIN addTasks
  /\ addTasks[k].pc = "pathExists"
  /\ ~MicrotaskPending
  /\ LET exist == PathExists("idle", addTasks[k].filename)
     IN  IF exist /\ addTasks[k].i < MaxAttempts
         THEN /\ fileId' = fileId + 1
              /\ \E t \in now..MaxClock :
                   /\ now' = t
                   /\ addTasks' = [addTasks EXCEPT ![k].i = @ + 1,
                                     ![k].filename = FormatFilename(t, fileId + 1)]
         ELSE /\ fileId' = fileId
              /\ now' = now
              /\ addTasks' = [addTasks EXCEPT
                                ![k].pc = IF exist THEN "rejected" ELSE "writeJSON"]
  /\ UNCHANGED <<peer, called, options, disk0, dirExists, files, started, currentJob, inited,
                 initTask, startWaiting, clearTasks, idleWaiters, getJobMutex,
                 runJobMutex, runs, finishedPending, timers, log>>

\* add after `await fs.writeJSON(filename, data)`: the file is written (or the
\* write failed for want of the directory), then runNextJob() if started
AddWriteJSON(k) ==
  /\ k \in DOMAIN addTasks
  /\ addTasks[k].pc = "writeJSON"
  /\ ~MicrotaskPending
  /\ IF "idle" \notin dirExists
     THEN /\ addTasks' = [addTasks EXCEPT ![k].pc = "rejected"]
          /\ UNCHANGED <<files, getJobMutex, runs, clearTasks>>
     ELSE /\ addTasks' = [addTasks EXCEPT ![k].pc = "resolved", ![k].ran = started]
          /\ files' = WriteFile(files, "idle", addTasks[k].filename,
                                Stringify(addTasks[k].data))
          /\ IF started
             THEN /\ runs' = RunNextJobCalled(runs, getJobMutex)
                  /\ getJobMutex' = [locked |-> TRUE]
             ELSE UNCHANGED <<runs, getJobMutex>>
          /\ clearTasks' = Disturb(clearTasks)
  /\ UNCHANGED <<peer, called, options, disk0, now, dirExists, fileId, started, currentJob, inited,
                 initTask, startWaiting, idleWaiters, runJobMutex,
                 finishedPending, timers, log>>



\* -------------------------------------------------------------- runNextJob
\* the `finally` of runNextJob and, when releaseGetJob was not called yet,
\* the `if (releaseGetJob)` after it: call r returns
Returned(rs, r, holdsGetJob) ==
  LET left == RemoveAt(rs, r)
      afterRun == Release(left, "acquireRun", "getNextJob")
  IN  IF holdsGetJob THEN Release(afterRun, "acquireGet", "check") ELSE afterRun

\* a write to a field of the job of call r is seen through this.currentJob
\* when that is the same object
CurrentJobSees(r, job) == IF runs[r].aliased THEN job ELSE currentJob

\* runNextJob after `await Kiwi.getJobMutex.acquire()`: the test of
\* currentJob and started, then the acquire of runJobMutex, or the release
\* of getJobMutex and the return
RunNextJobCheck(r) ==
  /\ r \in DOMAIN runs
  /\ runs[r].pc = "check"
  /\ IF currentJob = Null /\ started
     THEN /\ runs' = [runs EXCEPT ![r].pc = Acquire(runJobMutex, "acquireRun", "getNextJob")]
          /\ runJobMutex' = [locked |-> TRUE]
          /\ getJobMutex' = getJobMutex
     ELSE /\ runs' = Release(RemoveAt(runs, r), "acquireGet", "check")
          /\ getJobMutex' = Released(RemoveAt(runs, r), "acquireGet")
          /\ runJobMutex' = runJobMutex
  /\ UNCHANGED <<peer, called, options, disk0, now, dirExists, files, fileId, started, currentJob,
                 inited, initTask, addTasks, startWaiting, clearTasks,
                 idleWaiters, finishedPending, timers, log>>

\* runNextJob after `await this.getNextJob()`: no job or a failed listing
\* releases both mutexes; a job becomes currentJob, getJobMutex is released
\* and runJob starts its fs.move
RunGetNextJob(r) ==
  /\ r \in DOMAIN runs
  /\ runs[r].pc = "getNextJob"
  /\ ~MicrotaskPending
  /\ IF "idle" \notin dirExists \/ GetNextJob = Null
     THEN /\ runs' = Returned(runs, r, TRUE)
          /\ runJobMutex' = Released(RemoveAt(runs, r), "acquireRun")
          /\ getJobMutex' = Released(RemoveAt(runs, r), "acquireGet")
          /\ currentJob' = currentJob
     ELSE LET claimed == [k \in DOMAIN runs |->
                            IF k = r
                            THEN [pc |-> "move", job |-> GetNextJob, aliased |-> TRUE,
                                  inst |-> 1]
                            ELSE [runs[k] EXCEPT !.aliased = FALSE]]
          IN  /\ currentJob' = GetNextJob
              /\ runs' = Release(claimed, "acquireGet", "check")
              /\ getJobMutex' = Released(claimed, "acquireGet")
              /\ runJobMutex' = runJobMutex
  /\ UNCHANGED <<peer, called, options, disk0, now, dirExists, files, fileId, started, inited,
                 initTask, addTasks, startWaiting, clearTasks, idleWaiters,
                 finishedPending, timers, log>>

\* runJob after `await fs.move(job.filepath, newFilepath)`; an error is
\* caught by runNextJob, which releases runJobMutex and leaves currentJob
RunMove(r) ==
  /\ r \in DOMAIN runs
  /\ runs[r].pc = "move"
  /\ ~MicrotaskPending
  /\ IF MoveFails("idle", "current", runs[r].job.filename)
     THEN /\ runs' = Returned(runs, r, FALSE)
          /\ runJobMutex' = Released(RemoveAt(runs, r), "acquireRun")
          /\ UNCHANGED <<files, dirExists, currentJob, clearTasks>>
     ELSE LET job == [runs[r].job EXCEPT !.filepath = "current"]
          IN  /\ files' = MoveFile(files, "idle", "current", job.filename)
              /\ dirExists' = dirExists \cup {"current"}
              /\ runs' = [runs EXCEPT ![r].pc = "readJSON", ![r].job = job]
              /\ currentJob' = CurrentJobSees(r, job)
              /\ runJobMutex' = runJobMutex
              /\ clearTasks' = Disturb(clearTasks)
  /\ UNCHANGED <<peer, called, options, disk0, now, fileId, started, inited, initTask, addTasks,
                 startWaiting, idleWaiters, getJobMutex, finishedPending, timers,
                 log>>

\* runJob after `await fs.readJSON(job.filepath)`: tryCount = 0 and the first
\* call of the worker
RunReadJSON(r) ==
  /\ r \in DOMAIN runs
  /\ runs[r].pc = "readJSON"
  /\ ~MicrotaskPending
  /\ IF ~PathExists("current", runs[r].job.filename)
     THEN /\ runs' = Returned(runs, r, FALSE)
          /\ runJobMutex' = Released(RemoveAt(runs, r), "acquireRun")
          /\ UNCHANGED <<currentJob, log>>
     ELSE LET job == [runs[r].job EXCEPT
                        !.data = Parse(FileAt(files, "current", runs[r].job.filename).text),
                        !.tryCount = 0]
          IN  /\ runs' = [runs EXCEPT ![r].pc = "worker", ![r].job = job]
              /\ currentJob' = CurrentJobSees(r, job)
              /\ log' = Append(log, [ev |-> "worker", job |-> job])
              /\ runJobMutex' = runJobMutex
  /\ UNCHANGED <<peer, called, options, disk0, now, dirExists, files, fileId, started, inited,
                 initTask, addTasks, startWaiting, clearTasks, idleWaiters,
                 getJobMutex, finishedPending, timers>>

\* a loop condition that stops one call earlier
RetryAgainStrict(job) ==
  /\ job.success # "true"
  /\ (ToNumber(options.retries) < 0 \/ job.tryCount < ToNumber(options.retries))

\* the do-while condition of runJob
RetryAgain(job) ==
  /\ job.success # "true"
  /\ (ToNumber(options.retries) < 0 \/ job.tryCount <= ToNumber(options.retries))

\* `await this.worker(job)` returns: job.success = true, the loop ends and
\* cleanJobFile starts
WorkerReturns(r) ==
  /\ r \in DOMAIN runs
  /\ runs[r].pc = "worker"
  /\ LET job == [runs[r].job EXCEPT !.success = "true"]
     IN  /\ runs' = [runs EXCEPT ![r].pc = "cleanJobFile", ![r].job = job]
         /\ currentJob' = CurrentJobSees(r, job)
  /\ UNCHANGED <<peer, called, options, disk0, now, dirExists, files, fileId, started, inited,
                 initTask, addTasks, startWaiting, clearTasks, idleWaiters,
                 getJobMutex, runJobMutex, finishedPending, timers, log>>

\* `await this.worker(job)` throws: job.success = false, tryCount++, then
\* the worker is called again or the loop ends and cleanJobFile starts
WorkerThrows(r) ==
  /\ r \in DOMAIN runs
  /\ runs[r].pc = "worker"
  /\ LET job == [runs[r].job EXCEPT !.success = "false", !.tryCount = @ + 1]
     IN  /\ currentJob' = CurrentJobSees(r, job)
         /\ IF RetryAgain(job)
            THEN /\ log' = Append(log, [ev |-> "worker", job |-> job])
                 /\ runs' = [runs EXCEPT ![r].job = job]
            ELSE /\ log' = log
                 /\ runs' = [runs EXCEPT ![r].pc = "cleanJobFile", ![r].job = job]
  /\ UNCHANGED <<peer, called, options, disk0, now, dirExists, files, fileId, started, inited,
                 initTask, addTasks, startWaiting, clearTasks, idleWaiters,
                 getJobMutex, runJobMutex, finishedPending, timers>>

\* the events runJob emits once cleanJobFile has returned
JobEvents(job) ==
  <<[ev |-> IF job.success = "true" THEN "job:success" ELSE "job:fail", job |-> job],
    [ev |-> "job:finished", job |-> job]>>

\* cleanJobFile: the terminal directory of the outcome
DestPath(job) == IF job.success = "true" THEN "success" ELSE "fail"

\* the delete option of the other outcome
RemoveOptionSwapped(job) ==
  IF job.success = "true" THEN options.deleteJobOnFail
  ELSE options.deleteJobOnSuccess

\* cleanJobFile: the delete option of the outcome
RemoveOption(job) ==
  IF job.success = "true" THEN options.deleteJobOnSuccess
  ELSE options.deleteJobOnFail

\* runJob after `await this.cleanJobFile(job)`: the file is removed or moved,
\* the events are emitted and the 'job:finished' listener onJobFinished
\* starts its isEmpty(); an error of fs.move is caught by runNextJob
RunCleanJobFile(r) ==
  /\ r \in DOMAIN runs
  /\ runs[r].pc = "cleanJobFile"
  /\ ~MicrotaskPending
  /\ LET old == runs[r].job
         job == [old EXCEPT !.filepath = IF RemoveOption(old) THEN "null"
                                         ELSE DestPath(old)]
     IN  IF ~RemoveOption(old) /\ MoveFails("current", DestPath(old), old.filename)
         THEN /\ runs' = Returned(runs, r, FALSE)
              /\ runJobMutex' = Released(RemoveAt(runs, r), "acquireRun")
              /\ UNCHANGED <<files, currentJob, log, finishedPending, clearTasks>>
         ELSE /\ files' = IF RemoveOption(old)
                          THEN RemoveFile(files, "current", old.filename)
                          ELSE MoveFile(files, "current", DestPath(old), old.filename)
              /\ clearTasks' = IF RemoveOption(old) THEN clearTasks
                               ELSE Disturb(clearTasks)
              /\ runs' = [runs EXCEPT ![r].pc = "return", ![r].job = job]
              /\ currentJob' = CurrentJobSees(r, job)
              /\ log' = log \o JobEvents(job)
              /\ finishedPending' = finishedPending + 1
              /\ runJobMutex' = runJobMutex
  /\ UNCHANGED <<peer, called, options, disk0, now, dirExists, fileId, started, inited, initTask,
                 addTasks, startWaiting, idleWaiters, getJobMutex, timers>>

\* runNextJob after `await this.runJob(job)`: currentJob = null, then the
\* finally block releases runJobMutex
RunReturn(r) ==
  /\ r \in DOMAIN runs
  /\ runs[r].pc = "return"
  /\ currentJob' = Null
  /\ runs' = [k \in DOMAIN Returned(runs, r, FALSE) |->
                [Returned(runs, r, FALSE)[k] EXCEPT !.aliased = FALSE]]
  /\ runJobMutex' = Released(RemoveAt(runs, r), "acquireRun")
  /\ UNCHANGED <<peer, called, options, disk0, now, dirExists, files, fileId, started, inited,
                 initTask, addTasks, startWaiting, clearTasks, idleWaiters,
                 getJobMutex, finishedPending, timers, log>>

\* onJobFinished after `await this.isEmpty()`: 'queue:idle' resolves the
\* promises of idle(), or a timer is set for runNextJob
OnJobFinished ==
  /\ finishedPending > 0
  /\ ~MicrotaskPending
  /\ finishedPending' = finishedPending - 1
  /\ IF "idle" \notin dirExists
     THEN UNCHANGED <<log, idleWaiters, timers>>
     ELSE IF Len(GetFilesInDirectory("idle")) = 0
          THEN /\ log' = Append(log, [ev |-> "queue:idle", job |-> Null])
               /\ idleWaiters' = 0
               /\ timers' = timers
          ELSE /\ timers' = timers + 1
               /\ UNCHANGED <<log, idleWaiters>>
  /\ UNCHANGED <<peer, called, options, disk0, now, dirExists, files, fileId, started, currentJob,
                 inited, initTask, addTasks, startWaiting, clearTasks,
                 getJobMutex, runJobMutex, runs>>

\* the setTimeout callback of onJobFinished: runNextJob()
TimerFires ==
  /\ timers > 0
  /\ ~MicrotaskPending
  /\ timers' = timers - 1
  /\ runs' = RunNextJobCalled(runs, getJobMutex)
  /\ getJobMutex' = [locked |-> TRUE]
  /\ UNCHANGED <<peer, called, options, disk0, now, dirExists, files, fileId, started, currentJob,
                 inited, initTask, addTasks, startWaiting, clearTasks,
                 idleWaiters, runJobMutex, finishedPending, log>>

\* ----------------------------------------------------------- specification
\* the steps of _init(), of add() and of the dispatch loop
InitSteps == InitMkdirp \/ InitRestoreList \/ InitRestoreMove \/ InitClear

AddSteps ==
  \/ \E k \in 1..Len(addTasks) : AddPathExists(k)
  \/ \E k \in 1..Len(addTasks) : AddWriteJSON(k)

Dispatch ==
  \/ StartResume
  \/ \E r \in 1..Len(runs) : RunNextJobCheck(r)
  \/ \E r \in 1..Len(runs) : RunGetNextJob(r)
  \/ \E r \in 1..Len(runs) : RunMove(r)
  \/ \E r \in 1..Len(runs) : RunReadJSON(r)
  \/ \E r \in 1..Len(runs) : WorkerReturns(r)
  \/ \E r \in 1..Len(runs) : WorkerThrows(r)
  \/ \E r \in 1..Len(runs) : RunCleanJobFile(r)
  \/ \E r \in 1..Len(runs) : RunReturn(r)
  \/ OnJobFinished
  \/ TimerFires

\* a caller of start(), pause(), clear() and add(), in any order, with
\* add(i) as in the tests
Next ==
  \/ CallStart
  \/ CallPause
  \/ CallClear
  \/ CallAdd(TestPayload(Len(addTasks) + 1))
  \/ \E k \in 1..Len(clearTasks) : ClearEmpty(k)
  \/ InitSteps
  \/ AddSteps
  \/ Dispatch

Spec == Init /\ [][Next]_vars

\* a caller that starts the queue, adds jobs and waits for idle()
NextOptions ==
  \/ CallStart
  \/ CallIdle
  \/ CallAdd(TestPayload(Len(addTasks) + 1))
  \/ InitSteps
  \/ AddSteps
  \/ Dispatch

SpecOptions == InitOptions /\ [][NextOptions]_vars

\* every add() called so far has returned or thrown
AddsSettled == \A k \in DOMAIN addTasks : addTasks[k].pc \in {"resolved", "rejected"}

\* awaited add() calls on a queue whose other file-system calls (of _init
\* and of getNextJob) have not completed yet
NextNames ==
  \/ /\ Len(addTasks) < MaxJobs /\ AddsSettled
     /\ AddCalled(TestPayload(Len(addTasks) + 1))
  \/ AddSteps
  \/ \E r \in 1..Len(runs) : RunNextJobCheck(r)

SpecNames == InitNames /\ [][NextNames]_vars

\* `await queue.clear()` as the first statement of the caller
ScriptClear ==
  /\ called.clear = 0 /\ called.start = 0 /\ addTasks = <<>>
  /\ CallClear

\* `await queue.add(data)` before start() is called
ScriptAdd ==
  /\ called.start = 0 /\ clearTasks = <<>> /\ AddsSettled
  /\ \E data \in Payloads : CallAdd(data)

\* `queue.start()`, once, as the last call of the caller
ScriptStart ==
  /\ called.start = 0 /\ clearTasks = <<>> /\ AddsSettled
  /\ CallStart

\* the caller of the tests: clear, then the adds one after the other, then
\* start
NextScript ==
  \/ ScriptClear
  \/ ScriptAdd
  \/ ScriptStart
  \/ \E k \in 1..Len(clearTasks) : ClearEmpty(k)
  \/ InitSteps
  \/ AddSteps
  \/ Dispatch

SpecScript == InitScript /\ [][NextScript]_vars


\* -------------------------------------------------------------- properties
JsonFiles(d) == {f \in files[d] : EndsWithJson(f.name)}

\* the place in the log of the first call of the worker on a file, or 0
FirstInvocation(name) ==
  IF \E i \in DOMAIN log : log[i].ev = "worker" /\ log[i].job.filename = name
  THEN CHOOSE i \in DOMAIN log :
         /\ log[i].ev = "worker" /\ log[i].job.filename = name
         /\ \A j \in 1..(i - 1) : ~(log[j].ev = "worker" /\ log[j].job.filename = name)
  ELSE 0

\* the calls of the worker in progress
WorkersInProgress == {r \in DOMAIN runs : runs[r].pc = "worker"}

\* the queue was started by its constructor and never paused: every add()
\* was called while the queue was started
AlwaysStarted == options.autostart /\ called.pause = 0

\* C1: of two add() calls made while the queue is started, the job of the
\* later call is never started before the job of the earlier call
C1_FifoStartOrder ==
  \A a, b \in DOMAIN addTasks :
    (/\ a < b
     /\ AlwaysStarted
     /\ addTasks[a].pc = "resolved" /\ addTasks[b].pc = "resolved"
     /\ FirstInvocation(addTasks[a].filename) # 0
     /\ FirstInvocation(addTasks[b].filename) # 0)
    => FirstInvocation(addTasks[a].filename) < FirstInvocation(addTasks[b].filename)

\* C2: once initialization has completed, at most one job file is in
\* `current` and at most one call of the worker is in progress
C2_MutualExclusion ==
  inited = "resolved" =>
    /\ Cardinality(JsonFiles("current")) <= 1
    /\ Cardinality(WorkersInProgress) <= 1

\* C2 witness: a worker is running on the only file of `current` while
\* another job waits in `idle` and a second runNextJob() call is under way
C2_Witness ==
  /\ inited = "resolved"
  /\ Cardinality(WorkersInProgress) = 1
  /\ Cardinality(JsonFiles("current")) = 1
  /\ JsonFiles("idle") # {}
  /\ Len(runs) >= 2

\* ------------------------------------------------------------------ C3, C4
Max(S) == CHOOSE x \in S : \A y \in S : y <= x

\* the log entries that end a run of the job file `name`
Outcomes(name) ==
  {i \in DOMAIN log : /\ log[i].ev \in {"job:success", "job:fail"}
                      /\ log[i].job.filename = name}

\* the calls of the worker on the file of the outcome logged at place i: the
\* calls on that file since its previous outcome
CallsBefore(i) ==
  LET name == log[i].job.filename
      prev == {j \in Outcomes(name) : j < i}
      from == IF prev = {} THEN 0 ELSE Max(prev)
  IN  {j \in (from + 1)..(i - 1) :
         log[j].ev = "worker" /\ log[j].job.filename = name}

Quiescent ==
  /\ initTask.pc \in {"none", "done", "failed"}
  /\ startWaiting = 0
  /\ clearTasks = <<>>
  /\ AddsSettled
  /\ runs = <<>>
  /\ finishedPending = 0
  /\ timers = 0

\* the worker has not thrown so far
NeverThrew ==
  /\ \A i \in DOMAIN log : log[i].ev # "queue:idle" => log[i].job.tryCount = 0
  /\ \A r \in DOMAIN runs : runs[r].job # Null => runs[r].job.tryCount = 0

\* the calls of the worker on the job an earlier process left in `current`
OldCalls ==
  {i \in DOMAIN log : log[i].ev = "worker" /\ log[i].job.filename = OldJob.name}

QueueIdles == {i \in DOMAIN log : log[i].ev = "queue:idle"}

\* a job was left in `current`, restore is on, and the caller only starts the
\* queue (by the constructor or by start()), with a worker that succeeds
RecoveryCase ==
  /\ OldJob \in disk0.files["current"]
  /\ options.restore
  /\ addTasks = <<>>
  /\ called.clear = 0
  /\ NeverThrew

\* C4: in the recovery case the job is in `idle` and not in `current` when
\* initialization has completed and nothing is claimed yet, the worker is
\* never called twice on it, and once the started queue has nothing left to
\* do it was called exactly once, `queue:idle` was emitted and `idle` and
\* `current` are empty
C4_CrashRecovery ==
  RecoveryCase =>
    /\ Cardinality(OldCalls) <= 1
    /\ (inited = "resolved" /\ currentJob = Null /\ OldCalls = {}) =>
         (OldJob \in files["idle"] /\ OldJob \notin files["current"])
    /\ (started /\ Quiescent) =>
         /\ Cardinality(OldCalls) = 1
         /\ QueueIdles # {}
         /\ Max(QueueIdles) > Max(OldCalls)
         /\ currentJob = Null
         /\ files["idle"] = {} /\ files["current"] = {}

\* C4 witness: the recovered job ran once and the queue went idle
C4_Witness ==
  /\ RecoveryCase
  /\ started /\ Quiescent
  /\ Cardinality(OldCalls) = 1
  /\ QueueIdles # {}

\* ------------------------------------------------------------------ C5, C6
\* the add() calls that have returned
Added == {k \in DOMAIN addTasks : addTasks[k].pc = "resolved"}

\* C5: when `queue:idle` resolves the promises of idle(), no job whose add()
\* had returned is in `idle` or `current`
C5_IdleAfterTerminal ==
  [][(idleWaiters > 0 /\ idleWaiters' = 0) =>
       \A k \in Added :
         addTasks[k].filename \notin Names("idle")' \cup Names("current")']_vars

\* n >= 1 jobs were enqueued before start(), each add() returned, the queue
\* was then started and has nothing left to do
EnqueuedThenStarted ==
  /\ ~options.autostart
  /\ addTasks # <<>>
  /\ Added = DOMAIN addTasks
  /\ started
  /\ Quiescent

\* the worker was called on every enqueued job, in enqueue order, and
\* `queue:idle` was emitted once, after everything else
ServedInOrder ==
  /\ \A k \in Added : FirstInvocation(addTasks[k].filename) # 0
  /\ \A a, b \in Added :
       a < b => FirstInvocation(addTasks[a].filename)
                  < FirstInvocation(addTasks[b].filename)
  /\ Cardinality(QueueIdles) = 1
  /\ log[Len(log)].ev = "queue:idle"

\* C6 as stated: jobs enqueued before start() are served in order after
\* start(), then `queue:idle` is emitted once
C6_EnqueueThenStart == EnqueuedThenStarted => ServedInOrder

\* C6: the same on a queue directory without job files of an earlier run,
\* when restore is on or initialization completed before the first add()
\* (the caller awaited clear() first)
C6_EnqueueThenStartRestore ==
  (/\ EnqueuedThenStarted
   /\ InitialJobs = {}
   /\ options.restore \/ called.clear > 0) => ServedInOrder

\* C6 witness: two jobs enqueued before start() on a queue with restore were
\* served and the queue went idle
C6_Witness ==
  /\ EnqueuedThenStarted
  /\ InitialJobs = {}
  /\ options.restore /\ called.clear = 0
  /\ Len(addTasks) = 2
  /\ ServedInOrder

\* ---------------------------------------------------------------------- C7
\* C7: when a clear() returns and no file was written or moved into a
\* directory since it was called, the four directories are empty and
\* countIdleJobs() is 0
C7_ClearEmpties ==
  [][\A k \in DOMAIN clearTasks :
       (/\ inited = "resolved"
        /\ clearTasks[k].pc = 4
        /\ ~clearTasks[k].disturbed
        /\ clearTasks' = RemoveAt(clearTasks, k))
       => /\ \A d \in Dirs : files'[d] = {}
          /\ Len(GetFilesInDirectory("idle"))' = 0]_vars

\* C7 witness: an undisturbed clear() has emptied `current`, `idle` and
\* `success` and is about to empty `fail`, which holds the file of a job
\* that failed before
C7_Witness ==
  \E k \in DOMAIN clearTasks :
    /\ inited = "resolved"
    /\ clearTasks[k].pc = 4
    /\ ~clearTasks[k].disturbed
    /\ files["fail"] # {}
    /\ \E i \in DOMAIN log : log[i].ev = "job:fail"

\* ---------------------------------------------------------------------- C8
\* the calls of the worker on the job file of the k-th add(); a file of the
\* same name left by an earlier process is another job
CallsOf(k) ==
  {i \in DOMAIN log : /\ log[i].ev = "worker"
                      /\ log[i].job.filename = addTasks[k].filename
                      /\ \A f \in InitialJobs : f.name # addTasks[k].filename}

\* C8 as stated: the worker gets the payload that was passed to add()
C8_RoundTrip ==
  \A k \in Added : \A i \in CallsOf(k) : log[i].job.data = addTasks[k].data

\* the payloads that JSON represents: finite numbers and strings, not NaN
JsonPayloads == Payloads \ {"NaN"}

\* C8: the worker gets the payload that was passed to add() when JSON
\* represents that payload (JSON.parse(JSON.stringify(p)) equals p)
C8_RoundTripJson ==
  \A k \in Added :
    addTasks[k].data \in JsonPayloads =>
      \A i \in CallsOf(k) : log[i].job.data = addTasks[k].data

\* C8 witness: the worker was called with the string payload of an add()
C8_Witness ==
  \E k \in Added : \E i \in CallsOf(k) :
    addTasks[k].data = "'foo'" /\ log[i].job.data = "'foo'"

\* ----------------------------------------------------------------- C9, C10
\* C9: from pause() to the next start() no file comes into `current`
C9_NoClaimWhilePaused ==
  [][(called.pause > 0 /\ ~started) => Names("current")' \subseteq Names("current")]_vars

\* the runNextJob() calls whose worker has terminated and whose cleanJobFile
\* is pending
Cleaning(rs) == {r \in DOMAIN rs : rs[r].pc = "cleanJobFile"}

\* C10: when the cleanJobFile of a job whose worker terminated completes,
\* exactly one of `job:success` and `job:fail` is emitted, then `job:finished`
C10_CompletionEvents ==
  [][(Cleaning(runs) # {} /\ Cleaning(runs') = {}) =>
       /\ Len(log') = Len(log) + 2
       /\ log'[Len(log') - 1].ev \in {"job:success", "job:fail"}
       /\ log'[Len(log')].ev = "job:finished"]_vars

\* --------------------------------------------------------------------- C11
\* C11: with retries = 0 no job ever fails terminally (`job:fail` is never
\* emitted), and with retries = false every `job:fail` follows exactly one
\* call of the worker
C11_RetrySpecialValues ==
  /\ options.retries = RetriesNumber(0) =>
       \A i \in DOMAIN log : log[i].ev # "job:fail"
  /\ options.retries = RetriesFalse =>
       \A i \in DOMAIN log :
         log[i].ev = "job:fail" => Cardinality(CallsBefore(i)) = 1

\* --------------------------------------------------------------------- C12
\* the started queue is idle and at rest: initialization is done, `idle` is
\* empty, no job is in flight and no step of the class is pending, so that
\* only a call of the caller can change the state
IdleAtRest ==
  /\ started
  /\ inited = "resolved"
  /\ Quiescent
  /\ files["idle"] = {}
  /\ currentJob = Null

\* C12: no promise returned by idle() is left unresolved on a queue that is
\* idle and at rest (it could only be resolved by enqueuing a further job)
C12_NoMissedIdle == IdleAtRest => idleWaiters = 0

\* --------------------------------------------------------------------- C13
\* the files of directory d that are the file of a job: its name and its
\* payload
JobFiles(fs, d, job) ==
  {f \in fs[d] : f.name = job.filename /\ Parse(f.text) = job.data}

\* where the file of a job is when its events are emitted: not in `current`;
\* in the terminal directory of its outcome unless the delete option of the
\* outcome is set, and never in the other terminal directory
TerminalPlace(fs, ev, job) ==
  LET own == IF ev = "job:success" THEN "success" ELSE "fail"
      other == IF ev = "job:success" THEN "fail" ELSE "success"
      delete == IF ev = "job:success" THEN options.deleteJobOnSuccess
                ELSE options.deleteJobOnFail
  IN  /\ JobFiles(fs, "current", job) = {}
      /\ JobFiles(fs, other, job) = {}
      /\ IF delete THEN JobFiles(fs, own, job) = {}
         ELSE JobFiles(fs, own, job) # {}

Allocated(tasks) ==
  {k \in DOMAIN tasks : tasks[k].pc \in {"writeJSON", "resolved"}}

\* C14: getUniqueFilename() tries at most MaxAttempts candidates, returns
\* only a name that was not in `idle` when it was checked and never the same
\* name twice; add() throws only after MaxAttempts candidates that all
\* existed, and then writes no file and calls no runNextJob()
C14_UniqueFilename ==
  [][/\ \A k \in DOMAIN addTasks' : addTasks'[k].i <= MaxAttempts
     /\ \A a, b \in Allocated(addTasks') :
          a # b => addTasks'[a].filename # addTasks'[b].filename
     /\ \A k \in DOMAIN addTasks :
          /\ (addTasks[k].pc = "pathExists" /\ addTasks'[k].pc = "writeJSON") =>
               addTasks[k].filename \notin Names("idle")
          /\ (addTasks[k].pc = "pathExists" /\ addTasks'[k].pc = "rejected") =>
               /\ addTasks[k].i = MaxAttempts
               /\ addTasks[k].filename \in Names("idle")
               /\ files' = files
               /\ runs' = runs]_vars

\* C14 witness: on a started queue an add() has thrown after MaxAttempts
\* candidates and the next add() has returned
C14_Witness ==
  /\ started
  /\ \E k \in DOMAIN addTasks :
       addTasks[k].pc = "rejected" /\ addTasks[k].i = MaxAttempts
  /\ \E k \in DOMAIN addTasks : addTasks[k].pc = "resolved"

\* --------------------------------------------------------------------- C15
\* C15: an add() throws only after MaxAttempts candidate names, and the
\* initialization awaited by start() is never rejected
C15_OnlyExhaustionPropagates ==
  /\ \A k \in DOMAIN addTasks :
       addTasks[k].pc = "rejected" => addTasks[k].i = MaxAttempts
  /\ inited # "rejected"

\* --------------------------------------------------------------------- C16
\* C16: while the initialization run has not completed no file comes into
\* `current`
C16_NoClaimBeforeInit ==
  [][inited = "pending" => Names("current")' \subseteq Names("current")]_vars

\* --------------------------------------------------------------------- C17
\* C17: when no runNextJob() call is in progress, whatever error the earlier
\* calls have caught, both mutexes are free and currentJob is null, so that
\* the next runNextJob() passes the test of currentJob and can claim a job
C17_NoWedge ==
  runs = <<>> =>
    /\ ~getJobMutex.locked
    /\ ~runJobMutex.locked
    /\ currentJob = Null

\* --------------------------------------------------------------------- C18
\* C18: no file name is in two of the four directories
C18_OneLocation ==
  \A d1, d2 \in Dirs : d1 # d2 => Names(d1) \cap Names(d2) = {}

\* --------------------------------------------------------------------- C19
\* the first calls of the worker in the runs of the job of the k-th add():
\* one for each time the job was claimed and read
ClaimsOf(k) == {i \in CallsOf(k) : log[i].job.tryCount = 0}

\* C19: the job of an add() is claimed at most once and reaches an outcome
\* (`job:success` or `job:fail`) at most once
C19_NoDoubleDispatch ==
  \A k \in Added :
    /\ Cardinality(ClaimsOf(k)) <= 1
    /\ (\A f \in InitialJobs : f.name # addTasks[k].filename) =>
         Cardinality(Outcomes(addTasks[k].filename)) <= 1

\* --------------------------------------------------------------------- C20
\* init(): `if (!this.inited) this.inited = this._init(); return this.inited`.
\* A call after the first one returns the promise it finds and changes nothing
CallInit ==
  /\ inited' = InitCalled
  /\ initTask' = InitTaskCalled
  /\ UNCHANGED <<peer, called, options, disk0, now, dirExists, files, fileId, started,
                 currentJob, addTasks, startWaiting, clearTasks, idleWaiters,
                 getJobMutex, runJobMutex, runs, finishedPending, timers, log>>

\* the default options but for restore, on an empty queue or after a crash
\* that left a job in `current`, or started by the constructor after a crash
InitMemo ==
  \E a \in BOOLEAN, r \in BOOLEAN, disk \in {EmptyDisk, CrashedDisk} :
    /\ a => disk = CrashedDisk
    /\ InitWith([autostart |-> a, restore |-> r, deleteJobOnFail |-> TRUE,
                 deleteJobOnSuccess |-> TRUE, retries |-> RetriesNumber(MaxRetries)],
                disk)

\* a caller that also calls init(), at any time and any number of times
NextMemo ==
  \/ CallInit
  \/ Next

SpecMemo == InitMemo /\ [][NextMemo]_vars

\* the call of _init() by init(): the first step of a new run of _init()
InitRuns ==
  /\ initTask' # initTask
  /\ initTask'.pc = "mkdirp"
  /\ initTask'.i = 1

\* a step of a clear() after its `await this.init()`
ClearGoesOn ==
  \/ Len(clearTasks') < Len(clearTasks)
  \/ /\ Len(clearTasks') = Len(clearTasks)
     /\ \E k \in DOMAIN clearTasks : clearTasks'[k].pc # clearTasks[k].pc

\* C20: only the first call of init(), by init(), start() or clear(), runs
\* _init(); every later call finds the same promise, whose outcome never
\* changes, and start() and clear() go on only once it is settled
C20_InitMemoized ==
  [][/\ InitRuns => inited = "undefined"
     /\ inited # "undefined" => inited' # "undefined"
     /\ inited \in {"resolved", "rejected"} =>
          (inited' = inited /\ initTask' = initTask)
     /\ (startWaiting' < startWaiting \/ ClearGoesOn) =>
          inited \in {"resolved", "rejected"}
     /\ called.start + called.clear > 0 => inited # "undefined"]_vars

\* start() and clear() were both called, _init() resolved, and both calls
\* went on to their end
C20_Witness ==
  /\ called.start > 0
  /\ called.clear > 0
  /\ inited = "resolved"
  /\ startWaiting = 0
  /\ clearTasks = <<>>
  /\ runs # <<>>

\* --------------------------------------------------------------------- C21
\* the recovery is about to move a file of `current` whose name a file of
\* `idle` has
RestoreCollides ==
  /\ initTask.pc = "restore:move"
  /\ Head(initTask.todo) \in Names("current")
  /\ Head(initTask.todo) \in Names("idle")

\* C21: a recovery that meets a name of `current` already taken in `idle`
\* leaves the files as they are and does not reject the initialization
C21_CollisionSkipped ==
  [][(RestoreCollides /\ initTask' # initTask) =>
       (files' = files /\ inited' # "rejected")]_vars

\* --------------------------------------------------------------------- C22
\* _init() resolves at this step
InitResolves == inited = "pending" /\ inited' = "resolved"

\* the job files the disk had in directory d when the queue was constructed
JobFiles0(d) == {f \in disk0.files[d] : EndsWithJson(f.name)}

\* C22: when _init() resolves with restore on, every job file the disk had in
\* `current` is in `idle` under its name, `current` holds no job file, `idle`
\* still has the job files it had, and `success` and `fail` are as they were
C22_RestoreFrame ==
  [][(InitResolves /\ options.restore) =>
       /\ JobFiles0("current") \subseteq files'["idle"]
       /\ JsonFiles("current")' = {}
       /\ JobFiles0("idle") \subseteq files'["idle"]
       /\ files'["success"] = disk0.files["success"]
       /\ files'["fail"] = disk0.files["fail"]]_vars

\* --------------------------------------------------------------------- C23
\* the worker is called at this step
WorkerCalled == Len(log') > Len(log) /\ log'[Len(log')].ev = "worker"

\* C23: when _init() resolves with restore off, the four directories are
\* empty, and the worker is called only once _init() has resolved
C23_WipeOnInit ==
  [][~options.restore =>
       /\ InitResolves => \A d \in Dirs : files'[d] = {}
       /\ WorkerCalled => inited = "resolved"]_vars

\* --------------------------------------------------------------------- C24
\* the place in the log of the last call of the worker on a file before
\* place i, or 0
LastCall(name, i) ==
  LET calls == {j \in 1..(i - 1) : log[j].ev = "worker" /\ log[j].job.filename = name}
  IN  IF calls = {} THEN 0 ELSE Max(calls)

\* tryCount as the worker and the listeners see it: 0 at the first call, one
\* more at each call after a failure, the number of failures in the outcome
TryCounts ==
  \A i \in DOMAIN log :
    LET job == log[i].job
        last == LastCall(job.filename, i)
    IN  /\ log[i].ev = "worker" =>
             \/ job.tryCount = 0
             \/ last > 0 /\ job.tryCount = log[last].job.tryCount + 1
        /\ log[i].ev = "job:success" =>
             last > 0 /\ job.tryCount = log[last].job.tryCount
        /\ log[i].ev = "job:fail" =>
             /\ last > 0 /\ job.tryCount = log[last].job.tryCount + 1
             /\ options.retries.type = "number" /\ options.retries.num >= 0 =>
                  job.tryCount = options.retries.num + 1

\* C24: while the worker of a job is called, the file of the job is in
\* `current`, currentJob is the job and runJobMutex is held; tryCount counts
\* the failed calls, and is retries + 1 in a `job:fail`
C24_RetryInPlace ==
  /\ \A r \in WorkersInProgress :
       /\ runs[r].job.filename \in Names("current")
       /\ currentJob = runs[r].job
       /\ runJobMutex.locked
  /\ TryCounts

\* --------------------------------------------------------------------- C25
\* `queue:idle` is emitted at this step
IdleEmitted == Len(log') > Len(log) /\ log'[Len(log')].ev = "queue:idle"

\* C25: `queue:idle` is emitted only when `idle` holds no job file, currentJob
\* is null and no call of runNextJob has a job
C25_IdleOnlyAtRest ==
  [][IdleEmitted =>
       /\ JsonFiles("idle") = {}
       /\ currentJob = Null
       /\ \A r \in DOMAIN runs : runs[r].job = Null]_vars

\* --------------------------------------------------------------------- C26
\* the events of a job are emitted at this step
JobEventsEmitted == Len(log') = Len(log) + 2 /\ log'[Len(log')].ev = "job:finished"

\* C26: a listener of the events of a job finds the file of the job out of
\* `current`, currentJob null and runJobMutex free
C26_ClearedBeforeEvents ==
  [][JobEventsEmitted =>
       /\ log'[Len(log')].job.filename \notin Names("current")'
       /\ currentJob' = Null
       /\ ~runJobMutex'.locked]_vars

\* --------------------------------------------------------------------- C27
\* a queue started by its constructor on an empty queue directory, with the
\* default options but for restore
InitLive ==
  \E r \in BOOLEAN :
    InitWith([autostart |-> TRUE, restore |-> r, deleteJobOnFail |-> TRUE,
              deleteJobOnSuccess |-> TRUE, retries |-> RetriesNumber(MaxRetries)],
             EmptyDisk)

\* a caller that only adds jobs: the queue stays started
NextLive ==
  \/ CallAdd(TestPayload(Len(addTasks) + 1))
  \/ InitSteps
  \/ AddSteps
  \/ Dispatch

\* the event loop runs every continuation, I/O callback and timer that is
\* ready, and every call of the worker settles
Fairness ==
  /\ WF_vars(InitSteps)
  /\ WF_vars(\E k \in 1..Len(addTasks) : AddPathExists(k))
  /\ WF_vars(\E k \in 1..Len(addTasks) : AddWriteJSON(k))
  /\ WF_vars(StartResume)
  /\ WF_vars(\E r \in 1..Len(runs) : RunNextJobCheck(r))
  /\ WF_vars(\E r \in 1..Len(runs) : RunGetNextJob(r))
  /\ WF_vars(\E r \in 1..Len(runs) : RunMove(r))
  /\ WF_vars(\E r \in 1..Len(runs) : RunReadJSON(r))
  /\ WF_vars(\E r \in 1..Len(runs) : WorkerReturns(r) \/ WorkerThrows(r))
  /\ WF_vars(\E r \in 1..Len(runs) : RunCleanJobFile(r))
  /\ WF_vars(\E r \in 1..Len(runs) : RunReturn(r))
  /\ WF_vars(OnJobFinished)
  /\ WF_vars(TimerFires)

SpecLive == InitLive /\ [][NextLive]_vars /\ Fairness

\* no file-system call has failed: no add() and no _init() rejected, and no
\* call of runNextJob caught an error, which leaves currentJob set
NoFsFailure ==
  /\ inited # "rejected"
  /\ \A k \in DOMAIN addTasks : addTasks[k].pc # "rejected"
  /\ currentJob # Null => \E r \in DOMAIN runs : runs[r].job # Null

\* the k-th add() has returned and its job has an outcome
Terminal(k) ==
  /\ k \in Added
  /\ Outcomes(addTasks[k].filename) # {}

\* C27: on a queue that stays started, while no file-system call fails, the
\* job of every add() that returned gets an outcome, and `queue:idle` is
\* emitted after the outcome of the last one
C27_Progress ==
  []NoFsFailure =>
    /\ \A k \in 1..MaxJobs : (k \in Added) ~> Terminal(k)
    /\ (Len(addTasks) = MaxJobs /\ Added = DOMAIN addTasks) ~>
         (\A k \in 1..MaxJobs : Terminal(k)) /\ log[Len(log)].ev = "queue:idle"

\* --------------------------------------------------------------------- C28
\* the calls of runNextJob that hold getJobMutex: from its acquire to the
\* release before runJob or at the end of the call
HoldsGetJob ==
  {r \in DOMAIN runs : runs[r].pc \in {"check", "acquireRun", "getNextJob"}}

\* the calls of runNextJob that hold runJobMutex: from its acquire to the
\* `finally` of the call
HoldsRunJob ==
  {r \in DOMAIN runs :
     runs[r].pc \in {"getNextJob", "move", "readJSON", "worker", "cleanJobFile",
                     "return"}}

\* C28: each mutex is locked exactly while one call of runNextJob holds it,
\* so a call that returned has released what it acquired; a call waits for
\* runJobMutex only while it holds getJobMutex, and the call it waits for
\* holds runJobMutex alone and waits for nothing
C28_MutexProtocol ==
  /\ getJobMutex.locked <=> HoldsGetJob # {}
  /\ runJobMutex.locked <=> HoldsRunJob # {}
  /\ Cardinality(HoldsGetJob) <= 1
  /\ Cardinality(HoldsRunJob) <= 1
  /\ \A r \in DOMAIN runs :
       /\ runs[r].pc = "acquireGet" => HoldsGetJob # {}
       /\ runs[r].pc = "acquireRun" =>
            \E h \in HoldsRunJob : runs[h].pc \notin {"getNextJob", "acquireGet"}

\* a call of runNextJob caught an error of runJob and returned, and no call
\* is left
C28_Witness ==
  /\ runs = <<>>
  /\ currentJob # Null
  /\ ~getJobMutex.locked
  /\ ~runJobMutex.locked
  /\ log # <<>>

\* --------------------------------------------------------------------- C29
\* A second Kiwi of the same process, with the same worker and options, on a
\* directory of its own that no one else writes: its fields are the record
\* `peer`, its calls of runNextJob are the records of `runs` with inst = 2,
\* and it shares the static mutexes. It is initialized when it is started.
MaxPeerJobs == 2

\* a runJobMutex that is a member of each Kiwi
RunJobMutexOwn(inst) == IF inst = 1 THEN runJobMutex ELSE [locked |-> FALSE]

\* Kiwi.runJobMutex is a static member: the same mutex for every Kiwi
RunJobMutexOf(inst) == runJobMutex

\* what a step of the second Kiwi leaves alone in the first
PeerFrame ==
  UNCHANGED <<options, disk0, now, dirExists, files, fileId, started, currentJob,
              inited, initTask, addTasks, startWaiting, clearTasks, idleWaiters,
              finishedPending, timers, called, log>>

PeerRunNextJobCalled(rs, m) ==
  Append(rs, [pc |-> Acquire(m, "acquireGet", "check"), job |-> Null,
              aliased |-> FALSE, inst |-> 2])

\* getNextJob of the second Kiwi
PeerGetNextJob ==
  LET listing == SortNames({f.name : f \in {g \in peer.idle : EndsWithJson(g.name)}})
  IN  IF Len(listing) > 0
      THEN [filename |-> listing[1], filepath |-> "idle", data |-> "null",
            tryCount |-> 0, success |-> "undefined"]
      ELSE Null

\* start() of the second Kiwi, whose init() has resolved: runNextJob()
PeerStart ==
  /\ peer # NoPeer
  /\ ~peer.started
  /\ peer' = [peer EXCEPT !.started = TRUE]
  /\ runs' = PeerRunNextJobCalled(runs, getJobMutex)
  /\ getJobMutex' = [locked |-> TRUE]
  /\ runJobMutex' = runJobMutex
  /\ PeerFrame

PeerRunNextJobCheck(r) ==
  /\ r \in DOMAIN runs
  /\ runs[r].inst = 2
  /\ runs[r].pc = "check"
  /\ IF peer.currentJob = Null /\ peer.started
     THEN /\ runs' = [runs EXCEPT
                        ![r].pc = Acquire(RunJobMutexOf(2), "acquireRun", "getNextJob")]
          /\ runJobMutex' = [locked |-> TRUE]
          /\ getJobMutex' = getJobMutex
     ELSE /\ runs' = Release(RemoveAt(runs, r), "acquireGet", "check")
          /\ getJobMutex' = Released(RemoveAt(runs, r), "acquireGet")
          /\ runJobMutex' = runJobMutex
  /\ peer' = peer
  /\ PeerFrame

PeerRunGetNextJob(r) ==
  /\ r \in DOMAIN runs
  /\ runs[r].inst = 2
  /\ runs[r].pc = "getNextJob"
  /\ ~MicrotaskPending
  /\ IF PeerGetNextJob = Null
     THEN /\ runs' = Returned(runs, r, TRUE)
          /\ runJobMutex' = Released(RemoveAt(runs, r), "acquireRun")
          /\ getJobMutex' = Released(RemoveAt(runs, r), "acquireGet")
          /\ peer' = peer
     ELSE LET claimed == [runs EXCEPT ![r].pc = "move", ![r].job = PeerGetNextJob]
          IN  /\ peer' = [peer EXCEPT !.currentJob = PeerGetNextJob]
              /\ runs' = Release(claimed, "acquireGet", "check")
              /\ getJobMutex' = Released(claimed, "acquireGet")
              /\ runJobMutex' = runJobMutex
  /\ PeerFrame

\* runJob of the second Kiwi: fs.move into `current`
PeerRunMove(r) ==
  /\ r \in DOMAIN runs
  /\ runs[r].inst = 2
  /\ runs[r].pc = "move"
  /\ ~MicrotaskPending
  /\ LET job == [runs[r].job EXCEPT !.filepath = "current"]
         file == CHOOSE f \in peer.idle : f.name = job.filename
     IN  /\ peer' = [peer EXCEPT !.idle = @ \ {file}, !.current = @ \cup {file},
                                 !.currentJob = job]
         /\ runs' = [runs EXCEPT ![r].pc = "readJSON", ![r].job = job]
  /\ UNCHANGED <<getJobMutex, runJobMutex>>
  /\ PeerFrame

\* runJob of the second Kiwi: fs.readJSON, then the first call of the worker
PeerRunReadJSON(r) ==
  /\ r \in DOMAIN runs
  /\ runs[r].inst = 2
  /\ runs[r].pc = "readJSON"
  /\ ~MicrotaskPending
  /\ LET file == CHOOSE f \in peer.current : f.name = runs[r].job.filename
         job == [runs[r].job EXCEPT !.data = Parse(file.text), !.tryCount = 0]
     IN  /\ peer' = [peer EXCEPT !.currentJob = job]
         /\ runs' = [runs EXCEPT ![r].pc = "worker", ![r].job = job]
  /\ UNCHANGED <<getJobMutex, runJobMutex>>
  /\ PeerFrame

PeerWorkerReturns(r) ==
  /\ r \in DOMAIN runs
  /\ runs[r].inst = 2
  /\ runs[r].pc = "worker"
  /\ LET job == [runs[r].job EXCEPT !.success = "true"]
     IN  /\ peer' = [peer EXCEPT !.currentJob = job]
         /\ runs' = [runs EXCEPT ![r].pc = "cleanJobFile", ![r].job = job]
  /\ UNCHANGED <<getJobMutex, runJobMutex>>
  /\ PeerFrame

PeerWorkerThrows(r) ==
  /\ r \in DOMAIN runs
  /\ runs[r].inst = 2
  /\ runs[r].pc = "worker"
  /\ LET job == [runs[r].job EXCEPT !.success = "false", !.tryCount = @ + 1]
     IN  /\ peer' = [peer EXCEPT !.currentJob = job]
         /\ runs' = [runs EXCEPT ![r].pc = IF RetryAgain(job) THEN "worker"
                                           ELSE "cleanJobFile",
                                 ![r].job = job]
  /\ UNCHANGED <<getJobMutex, runJobMutex>>
  /\ PeerFrame

\* cleanJobFile of the second Kiwi (both delete options are on), then its
\* events, whose listener onJobFinished starts its isEmpty()
PeerRunCleanJobFile(r) ==
  /\ r \in DOMAIN runs
  /\ runs[r].inst = 2
  /\ runs[r].pc = "cleanJobFile"
  /\ ~MicrotaskPending
  /\ LET job == [runs[r].job EXCEPT !.filepath = "null"]
     IN  /\ peer' = [peer EXCEPT
                       !.current = {f \in @ : f.name # job.filename},
                       !.currentJob = job,
                       !.finishedPending = @ + 1]
         /\ runs' = [runs EXCEPT ![r].pc = "return", ![r].job = job]
  /\ UNCHANGED <<getJobMutex, runJobMutex>>
  /\ PeerFrame

PeerRunReturn(r) ==
  /\ r \in DOMAIN runs
  /\ runs[r].inst = 2
  /\ runs[r].pc = "return"
  /\ peer' = [peer EXCEPT !.currentJob = Null]
  /\ runs' = Returned(runs, r, FALSE)
  /\ runJobMutex' = Released(RemoveAt(runs, r), "acquireRun")
  /\ getJobMutex' = getJobMutex
  /\ PeerFrame

\* onJobFinished of the second Kiwi after isEmpty(): `queue:idle`, or
\* runNextJob() from a timer of delayBetweenJobs = 0
PeerOnJobFinished ==
  /\ peer.finishedPending > 0
  /\ ~MicrotaskPending
  /\ peer' = [peer EXCEPT !.finishedPending = @ - 1,
                          !.timers = IF PeerGetNextJob = Null THEN @ ELSE @ + 1]
  /\ UNCHANGED <<runs, getJobMutex, runJobMutex>>
  /\ PeerFrame

\* the setTimeout callback of the second Kiwi: runNextJob()
PeerTimerFires ==
  /\ peer.timers > 0
  /\ ~MicrotaskPending
  /\ peer' = [peer EXCEPT !.timers = @ - 1]
  /\ runs' = PeerRunNextJobCalled(runs, getJobMutex)
  /\ getJobMutex' = [locked |-> TRUE]
  /\ runJobMutex' = runJobMutex
  /\ PeerFrame

\* the steps of the second Kiwi
PeerSteps ==
  \/ PeerStart
  \/ \E r \in 1..Len(runs) : PeerRunNextJobCheck(r)
  \/ \E r \in 1..Len(runs) : PeerRunGetNextJob(r)
  \/ \E r \in 1..Len(runs) : PeerRunMove(r)
  \/ \E r \in 1..Len(runs) : PeerRunReadJSON(r)
  \/ \E r \in 1..Len(runs) : PeerWorkerReturns(r)
  \/ \E r \in 1..Len(runs) : PeerWorkerThrows(r)
  \/ \E r \in 1..Len(runs) : PeerRunCleanJobFile(r)
  \/ \E r \in 1..Len(runs) : PeerRunReturn(r)
  \/ PeerOnJobFinished
  \/ PeerTimerFires

\* the dispatch loop of the first Kiwi: the steps of its own calls
DispatchOwn ==
  \/ StartResume
  \/ \E r \in 1..Len(runs) : runs[r].inst = 1 /\ RunNextJobCheck(r)
  \/ \E r \in 1..Len(runs) : runs[r].inst = 1 /\ RunGetNextJob(r)
  \/ \E r \in 1..Len(runs) : runs[r].inst = 1 /\ RunMove(r)
  \/ \E r \in 1..Len(runs) : runs[r].inst = 1 /\ RunReadJSON(r)
  \/ \E r \in 1..Len(runs) : runs[r].inst = 1 /\ WorkerReturns(r)
  \/ \E r \in 1..Len(runs) : runs[r].inst = 1 /\ WorkerThrows(r)
  \/ \E r \in 1..Len(runs) : runs[r].inst = 1 /\ RunCleanJobFile(r)
  \/ \E r \in 1..Len(runs) : runs[r].inst = 1 /\ RunReturn(r)
  \/ OnJobFinished
  \/ TimerFires

\* two queues of one process, with the default options: the first started by
\* its constructor on an empty directory, the second with MaxPeerJobs jobs
\* in its `idle` and not started yet
InitPeers ==
  /\ InitKiwi([autostart |-> TRUE, restore |-> TRUE, deleteJobOnFail |-> TRUE,
               deleteJobOnSuccess |-> TRUE, retries |-> RetriesNumber(MaxRetries)],
              EmptyDisk)
  /\ peer = [NoPeer EXCEPT !.idle = OldJobs(MaxPeerJobs)]

\* the steps of both queues; _init() of the first, with restore on, has no
\* _clear()
NextPeers ==
  \/ CallAdd(TestPayload(Len(addTasks) + 1))
  \/ InitMkdirp
  \/ InitRestoreList
  \/ InitRestoreMove
  \/ AddSteps
  \/ DispatchOwn
  \/ PeerSteps

SpecPeers == InitPeers /\ [][NextPeers]_vars

\* the calls of runNextJob, of either queue, that have a job claimed or are
\* about to claim one
Claiming ==
  {r \in DOMAIN runs :
     runs[r].pc \in {"getNextJob", "move", "readJSON", "cleanJobFile", "return"}}

\* C29: the worker is in progress in at most one call of runNextJob of the
\* two queues, and while it is, no other call of either queue claims or
\* holds a job
C29_ProcessWideExclusion ==
  /\ Cardinality(WorkersInProgress) <= 1
  /\ WorkersInProgress # {} => Claiming = {}

\* the worker of one queue is in progress while a call of the other queue
\* waits for runJobMutex
C29_Witness ==
  \E r, q \in DOMAIN runs :
    /\ runs[r].pc = "worker"
    /\ runs[q].pc = "acquireRun"
    /\ runs[r].inst # runs[q].inst

\* --------------------------------------------------------------------- C30
\* the writeJSON of the k-th add() completes at this step
AddWrites(k) ==
  /\ k \in DOMAIN addTasks
  /\ addTasks[k].pc = "writeJSON"
  /\ addTasks'[k].pc = "resolved"

\* no clear() and no _clear() of _init() is emptying the directories
NoWipe == clearTasks = <<>> /\ initTask.pc # "clear"

\* C30: an add() whose write completes while the queue is not started puts
\* one new file into `idle` and changes neither the other directories nor
\* currentJob, starts no call of runNextJob and no call of the worker; and
\* while the queue is not started and nothing empties the directories, the
\* job of an add() that is in `idle` stays there
C30_AddWhileStopped ==
  [][~started =>
       /\ \A k \in DOMAIN addTasks :
            AddWrites(k) =>
              /\ addTasks[k].filename \notin Names("idle")
              /\ Names("idle")' = Names("idle") \cup {addTasks[k].filename}
              /\ \A d \in Dirs \ {"idle"} : files'[d] = files[d]
              /\ currentJob' = currentJob
              /\ runs' = runs
              /\ log' = log
       /\ (~started' /\ NoWipe) =>
            \A k \in Added :
              (~addTasks[k].ran /\ addTasks[k].filename \in Names("idle")) =>
                addTasks[k].filename \in Names("idle")']_vars

====
